---- MODULE Spec2Model ----
(***************************************************************************)
(* The chat front end of the beauty advisor: the Chat component's state    *)
(* (messages, input, isLoading), its event handlers handleSubmit and       *)
(* handleReset, the asynchronous request of handleSubmit with its two      *)
(* suspension points (await fetch, await response.json()), and the pure    *)
(* text function formatResponseText used when an assistant message is      *)
(* rendered.  The component exists in two variants that differ only in the *)
(* initial conversation: empty, or one assistant greeting.                 *)
(*                                                                         *)
(* A JavaScript string is a sequence of UTF-16 code units (naturals).      *)
(* A JavaScript value that may fail to be a string (the text field of a    *)
(* decoded response body) is a record [type, chars].                       *)
(*                                                                         *)
(* Handlers are modelled as the code has them: any handler may be invoked  *)
(* in any state.  The disabled attributes of the input and of the send     *)
(* button are a second guard in the DOM and are not relied upon.           *)
(***************************************************************************)
EXTENDS Integers, Sequences, FiniteSets, TLC

VARIABLES
  variant,    \* "empty" or "greeting": which Chat component is mounted
  messages,   \* useState<ChatMessage[]>: the conversation
  input,      \* useState(''): the input buffer
  isLoading,  \* useState(false): the in-flight flag
  pending,    \* invocations of handleSubmit suspended at an await
  sent,       \* number of fetch calls issued so far
  event,      \* the handler or continuation that ran last
  text,       \* the text handed to formatResponseText
  rendered,   \* the result of formatResponseText(text), or NotRendered
  extracted   \* the result of extractProducts(text), or NotExtracted

vars ==
  <<variant, messages, input, isLoading, pending, sent, event, text, rendered,
    extracted>>

chatVars == <<variant, messages, input, isLoading, pending, sent, event>>

parserVars == <<text, rendered, extracted>>

(***************************************************************************)
(* Bounds of the model.                                                    *)
(***************************************************************************)
MaxRequests == 2   \* accepted submits in one behaviour

MaxPieces == 4     \* pieces concatenated into a text for formatResponseText

MaxProductPieces == 5   \* pieces concatenated into a text for extractProducts

(***************************************************************************)
(* Strings.                                                                *)
(***************************************************************************)
\* White space and line terminators, as removed by String.prototype.trim.
WhiteSpace ==
  {9, 10, 11, 12, 13, 32, 160, 5760, 8232, 8233, 8239, 8287, 12288, 65279}
    \cup (8192..8202)

RECURSIVE TrimStart(_)
TrimStart(s) ==
  IF s = <<>> THEN s
  ELSE IF Head(s) \in WhiteSpace THEN TrimStart(Tail(s)) ELSE s

RECURSIVE TrimEnd(_)
TrimEnd(s) ==
  IF s = <<>> THEN s
  ELSE IF s[Len(s)] \in WhiteSpace THEN TrimEnd(SubSeq(s, 1, Len(s) - 1)) ELSE s

Trim(s) == TrimEnd(TrimStart(s))

Str(s) == [type |-> "string", chars |-> s]

Undefined == [type |-> "undefined", chars |-> <<>>]

FallbackText ==
  <<83, 111, 114, 114, 121, 44, 32, 116, 104, 101, 114, 101, 32, 119, 97,
    115, 32, 97, 110, 32, 101, 114, 114, 111, 114, 32, 112, 114, 111, 99,
    101, 115, 115, 105, 110, 103, 32, 121, 111, 117, 114, 32, 114, 101,
    113, 117, 101, 115, 116, 46>>

GreetingText ==
  <<55357, 56395, 32, 72, 105, 33, 32, 73, 39, 109, 32, 107, 78, 79, 119,
    76, 73, 44, 32, 121, 111, 117, 114, 32, 112, 101, 114, 115, 111, 110,
    97, 108, 32, 98, 101, 97, 117, 116, 121, 32, 97, 100, 118, 105, 115,
    111, 114, 46, 32, 73, 39, 109, 32, 104, 101, 114, 101, 32, 116, 111,
    32, 104, 101, 108, 112, 32, 121, 111, 117, 32, 100, 105, 115, 99,
    111, 118, 101, 114, 32, 116, 104, 101, 32, 112, 101, 114, 102, 101,
    99, 116, 32, 76, 39, 79, 114, 233, 97, 108, 32, 112, 114, 111, 100,
    117, 99, 116, 115, 32, 102, 111, 114, 32, 121, 111, 117, 114, 32,
    110, 101, 101, 100, 115, 46, 32, 87, 104, 101, 116, 104, 101, 114,
    32, 121, 111, 117, 39, 114, 101, 32, 108, 111, 111, 107, 105, 110,
    103, 32, 102, 111, 114, 32, 115, 107, 105, 110, 99, 97, 114, 101, 44,
    32, 104, 97, 105, 114, 99, 97, 114, 101, 44, 32, 111, 114, 32, 109,
    97, 107, 101, 117, 112, 32, 114, 101, 99, 111, 109, 109, 101, 110,
    100, 97, 116, 105, 111, 110, 115, 44, 32, 73, 39, 108, 108, 32, 103,
    117, 105, 100, 101, 32, 121, 111, 117, 32, 116, 111, 32, 116, 104,
    101, 32, 98, 101, 115, 116, 32, 115, 111, 108, 117, 116, 105, 111,
    110, 115, 46, 32, 87, 104, 97, 116, 32, 99, 97, 110, 32, 73, 32, 104,
    101, 108, 112, 32, 121, 111, 117, 32, 119, 105, 116, 104, 32, 116,
    111, 100, 97, 121, 63>>

(***************************************************************************)
(* Messages and the two initial conversations.                             *)
(***************************************************************************)
ChatMessage(r, c) == [role |-> r, content |-> c]

GreetingMessage == ChatMessage("assistant", Str(GreetingText))

FallbackMessage == ChatMessage("assistant", Str(FallbackText))

InitialMessages(v) == IF v = "greeting" THEN <<GreetingMessage>> ELSE <<>>

\* A reset that always empties the conversation.
ResetMessagesEmpty(v) == <<>>

\* handleReset: setMessages([]) in one variant, setMessages([greeting]) in
\* the other.
ResetMessages(v) == IF v = "greeting" THEN <<GreetingMessage>> ELSE <<>>

(***************************************************************************)
(* The environment: what the user types and what the server answers.       *)
(***************************************************************************)
\* "", "   ", "hi", " hi "
InputValues == {<<>>, <<32, 32, 32>>, <<104, 105>>, <<32, 104, 105, 32>>}

\* "ok", "## 🌟 T\n•A"
ReplyTexts == {<<111, 107>>, <<35, 35, 32, 55356, 57119, 32, 84, 10, 8226, 65>>}

\* A response body: not JSON at all, the JSON value null, or a JSON object
\* whose text member is a string or is absent (data.text is undefined).
NotJson == [kind |-> "notjson", text |-> Undefined]

JsonNull == [kind |-> "null", text |-> Undefined]

JsonObject(t) == [kind |-> "object", text |-> t]

Bodies ==
  {NotJson, JsonNull, JsonObject(Undefined)}
    \cup {JsonObject(Str(t)) : t \in ReplyTexts}

Responses == [ok : BOOLEAN, body : Bodies]

NoResponse == [ok |-> FALSE, body |-> NotJson]

\* The event that ran last: a handler, or the continuation of the invocation
\* call of handleSubmit after one of its awaits.
NoCall == [id |-> 0, pc |-> "none", payload |-> <<>>, resp |-> NoResponse]

Event(n, c) == [name |-> n, call |-> c]


(***************************************************************************)
(* formatResponseText: the sections rendered for an assistant message.     *)
(***************************************************************************)
\* The code units of the character class [👩🏼‍🔬🌟✨💫] of a regular expression
\* without the u flag: the class holds the UTF-16 code units of its
\* characters, surrogate halves and the zero-width joiner included.
HeaderClass == {8205, 10024, 55356, 55357, 56425, 56491, 56620, 57119, 57340}

\* /## [👩🏼‍🔬🌟✨💫]/ matches at index i of s.
HeaderAt(s, i) ==
  /\ i >= 1
  /\ i + 3 <= Len(s)
  /\ s[i] = 35
  /\ s[i + 1] = 35
  /\ s[i + 2] = 32
  /\ s[i + 3] \in HeaderClass

HeaderIndexes(s) == {i \in 1..Len(s) : HeaderAt(s, i)}

Min(S) == CHOOSE i \in S : \A j \in S : i <= j

\* The leading strip as a step that keeps nothing of a text without header.
StripLeadingDropsAll(s) ==
  IF HeaderIndexes(s) = {} THEN <<>>
  ELSE SubSeq(s, Min(HeaderIndexes(s)), Len(s))

\* text.replace(/^[\s\S]*?(## [👩🏼‍🔬🌟✨💫])/, '$1'): the lazy prefix ends at the
\* first header, which is kept; a text without header is not matched and
\* is returned as it is.
StripLeading(s) ==
  IF HeaderIndexes(s) = {} THEN s
  ELSE SubSeq(s, Min(HeaderIndexes(s)), Len(s))

\* cleanedText.split(/(?=## [👩🏼‍🔬🌟✨💫])/): p is the start of the current
\* piece and q the index tried; an empty match at p itself does not split.
RECURSIVE SplitFrom(_, _, _)
SplitFrom(s, p, q) ==
  IF q > Len(s) THEN <<SubSeq(s, p, Len(s))>>
  ELSE IF HeaderAt(s, q) /\ q # p
       THEN <<SubSeq(s, p, q - 1)>> \o SplitFrom(s, q, q)
       ELSE SplitFrom(s, p, q + 1)

SplitSections(s) == IF s = <<>> THEN <<s>> ELSE SplitFrom(s, 1, 1)

\* s.split(ch) for a separator of one code unit.
RECURSIVE SplitChar(_, _)
SplitChar(s, ch) ==
  IF \A i \in 1..Len(s) : s[i] # ch THEN <<s>>
  ELSE LET k == Min({i \in 1..Len(s) : s[i] = ch})
       IN <<SubSeq(s, 1, k - 1)>> \o SplitChar(SubSeq(s, k + 1, Len(s)), ch)

\* parts.join(ch)
RECURSIVE Join(_, _)
Join(parts, ch) ==
  IF parts = <<>> THEN <<>>
  ELSE IF Len(parts) = 1 THEN parts[1]
  ELSE parts[1] \o <<ch>> \o Join(Tail(parts), ch)

\* .filter((point) => point.trim()).map((point) => point.trim())
RECURSIVE TrimmedNonBlank(_)
TrimmedNonBlank(parts) ==
  IF parts = <<>> THEN <<>>
  ELSE IF Trim(Head(parts)) = <<>> THEN TrimmedNonBlank(Tail(parts))
  ELSE <<Trim(Head(parts))>> \o TrimmedNonBlank(Tail(parts))

NullSection == [null |-> TRUE, title |-> <<>>, bullets |-> <<>>]

\* The callback of sections.map: null for a blank section, else the title
\* (first line, trimmed) and the bullet points of the remaining lines.
FormatSection(section) ==
  IF Trim(section) = <<>> THEN NullSection
  ELSE LET lines == SplitChar(section, 10)
           title == Head(lines)
           content == Tail(lines)
           bulletPoints == TrimmedNonBlank(SplitChar(Join(content, 10), 8226))
       IN [null |-> FALSE, title |-> Trim(title), bullets |-> bulletPoints]

formatResponseText(t) ==
  LET cleanedText == Trim(StripLeading(t))
      sections == SplitSections(cleanedText)
  IN [i \in 1..Len(sections) |-> FormatSection(sections[i])]

NotRendered == [done |-> FALSE, out |-> <<>>]

\* Texts handed to formatResponseText: "## ", 🌟, ✨, 😀 (not in the class as
\* a character, but its first code unit is), "a", "\n", "•", " ", "#".
Pieces ==
  {<<35, 35, 32>>, <<55356, 57119>>, <<10024>>, <<55357, 56832>>,
   <<97>>, <<10>>, <<8226>>, <<32>>, <<35>>}

RECURSIVE TextsOf(_)
TextsOf(n) ==
  IF n = 0 THEN {<<>>}
  ELSE LET T == TextsOf(n - 1)
       IN T \cup {t \o p : t \in T, p \in Pieces}

Texts == TextsOf(MaxPieces)

(***************************************************************************)
(* JSON.parse, as far as extractProducts uses it: the value of a JSON text *)
(* or a SyntaxError.  A JavaScript value is a record [type, chars] with,   *)
(* for an object, its members in source order and, for an array, its       *)
(* items; a number keeps its literal as chars.                             *)
(***************************************************************************)
JsonWhiteSpace == {9, 10, 13, 32}

Digits == 48..57

HexDigits == (48..57) \cup (65..70) \cup (97..102)

HexValue(c) ==
  IF c \in 48..57 THEN c - 48 ELSE IF c \in 65..70 THEN c - 55 ELSE c - 87

\* The code unit of the escapes \" \\ \/ \b \f \n \r \t.
SimpleEscapes == {34, 92, 47, 98, 102, 110, 114, 116}

Unescape(c) ==
  CASE c = 98 -> 8 [] c = 102 -> 12 [] c = 110 -> 10
    [] c = 114 -> 13 [] c = 116 -> 9 [] OTHER -> c

JsNull == [type |-> "null", chars |-> <<>>]

JsBoolean(b) == [type |-> "boolean", chars |-> IF b THEN <<1>> ELSE <<>>]

JsNumber(literal) == [type |-> "number", chars |-> literal]

JsObject(members) == [type |-> "object", chars |-> <<>>, members |-> members]

JsArray(items) == [type |-> "array", chars |-> <<>>, items |-> items]

SyntaxError == [ok |-> FALSE, pos |-> 0, val |-> Undefined]

Parsed(p, v) == [ok |-> TRUE, pos |-> p, val |-> v]

RECURSIVE SkipWhiteSpace(_, _)
SkipWhiteSpace(s, i) ==
  IF i <= Len(s) /\ s[i] \in JsonWhiteSpace THEN SkipWhiteSpace(s, i + 1) ELSE i

RECURSIVE SkipDigits(_, _)
SkipDigits(s, i) ==
  IF i <= Len(s) /\ s[i] \in Digits THEN SkipDigits(s, i + 1) ELSE i

StartsWith(s, i, w) ==
  i + Len(w) - 1 <= Len(s) /\ SubSeq(s, i, i + Len(w) - 1) = w

\* The characters of a string after its opening quote, up to the closing one.
RECURSIVE ParseChars(_, _, _)
ParseChars(s, i, acc) ==
  IF i > Len(s) THEN SyntaxError
  ELSE IF s[i] = 34 THEN Parsed(i + 1, Str(acc))
  ELSE IF s[i] < 32 THEN SyntaxError
  ELSE IF s[i] # 92 THEN ParseChars(s, i + 1, Append(acc, s[i]))
  ELSE IF i + 1 > Len(s) THEN SyntaxError
  ELSE IF s[i + 1] \in SimpleEscapes
       THEN ParseChars(s, i + 2, Append(acc, Unescape(s[i + 1])))
  ELSE IF s[i + 1] = 117 /\ i + 5 <= Len(s)
            /\ \A k \in 2..5 : s[i + k] \in HexDigits
       THEN ParseChars(s, i + 6,
              Append(acc, 4096 * HexValue(s[i + 2]) + 256 * HexValue(s[i + 3])
                            + 16 * HexValue(s[i + 4]) + HexValue(s[i + 5])))
  ELSE SyntaxError

\* -? (0 | [1-9][0-9]*) (. [0-9]+)? ([eE] [+-]? [0-9]+)?
ParseNumber(s, i) ==
  LET a == IF i <= Len(s) /\ s[i] = 45 THEN i + 1 ELSE i
      b == IF a <= Len(s) /\ s[a] = 48 THEN a + 1 ELSE SkipDigits(s, a)
      hasFrac == b <= Len(s) /\ s[b] = 46
      c == IF hasFrac THEN SkipDigits(s, b + 1) ELSE b
      hasExp == c <= Len(s) /\ s[c] \in {69, 101}
      d == IF hasExp /\ c + 1 <= Len(s) /\ s[c + 1] \in {43, 45}
           THEN c + 2 ELSE c + 1
      e == IF hasExp THEN SkipDigits(s, d) ELSE c
  IN IF b = a \/ (hasFrac /\ c = b + 1) \/ (hasExp /\ e = d) THEN SyntaxError
     ELSE Parsed(e, JsNumber(SubSeq(s, i, e - 1)))

RECURSIVE ParseValue(_, _)
RECURSIVE ParseMembers(_, _, _)
RECURSIVE ParseElements(_, _, _)

\* The members of an object from index j, where a key must start.
ParseMembers(s, j, acc) ==
  IF j > Len(s) \/ s[j] # 34 THEN SyntaxError
  ELSE LET k == ParseChars(s, j + 1, <<>>)
       IN IF ~k.ok THEN SyntaxError
          ELSE LET c == SkipWhiteSpace(s, k.pos)
               IN IF c > Len(s) \/ s[c] # 58 THEN SyntaxError
                  ELSE LET v == ParseValue(s, SkipWhiteSpace(s, c + 1))
                       IN IF ~v.ok THEN SyntaxError
                          ELSE LET e == SkipWhiteSpace(s, v.pos)
                                   acc2 == Append(acc, [key |-> k.val.chars,
                                                        val |-> v.val])
                               IN IF e > Len(s) THEN SyntaxError
                                  ELSE IF s[e] = 125
                                       THEN Parsed(e + 1, JsObject(acc2))
                                  ELSE IF s[e] = 44
                                       THEN ParseMembers(s, SkipWhiteSpace(s, e + 1), acc2)
                                  ELSE SyntaxError

\* The items of an array from index j, where a value must start.
ParseElements(s, j, acc) ==
  LET v == ParseValue(s, j)
  IN IF ~v.ok THEN SyntaxError
     ELSE LET e == SkipWhiteSpace(s, v.pos)
              acc2 == Append(acc, v.val)
          IN IF e > Len(s) THEN SyntaxError
             ELSE IF s[e] = 93 THEN Parsed(e + 1, JsArray(acc2))
             ELSE IF s[e] = 44
                  THEN ParseElements(s, SkipWhiteSpace(s, e + 1), acc2)
             ELSE SyntaxError

\* The value that starts at index i (white space already skipped).
ParseValue(s, i) ==
  IF i > Len(s) THEN SyntaxError
  ELSE IF s[i] = 123
       THEN LET j == SkipWhiteSpace(s, i + 1)
            IN IF j <= Len(s) /\ s[j] = 125 THEN Parsed(j + 1, JsObject(<<>>))
               ELSE ParseMembers(s, j, <<>>)
  ELSE IF s[i] = 91
       THEN LET j == SkipWhiteSpace(s, i + 1)
            IN IF j <= Len(s) /\ s[j] = 93 THEN Parsed(j + 1, JsArray(<<>>))
               ELSE ParseElements(s, j, <<>>)
  ELSE IF s[i] = 34 THEN ParseChars(s, i + 1, <<>>)
  ELSE IF s[i] = 45 \/ s[i] \in Digits THEN ParseNumber(s, i)
  ELSE IF StartsWith(s, i, <<116, 114, 117, 101>>) THEN Parsed(i + 4, JsBoolean(TRUE))
  ELSE IF StartsWith(s, i, <<102, 97, 108, 115, 101>>) THEN Parsed(i + 5, JsBoolean(FALSE))
  ELSE IF StartsWith(s, i, <<110, 117, 108, 108>>) THEN Parsed(i + 4, JsNull)
  ELSE SyntaxError

\* JSON.parse(s): one value between optional white space, and nothing else.
JSONParse(s) ==
  LET r == ParseValue(s, SkipWhiteSpace(s, 1))
  IN IF r.ok /\ SkipWhiteSpace(s, r.pos) = Len(s) + 1 THEN r ELSE SyntaxError

\* productData.key: the value of the last member of that name, or undefined.
Member(obj, key) ==
  LET hits == {i \in 1..Len(obj.members) : obj.members[i].key = key}
  IN IF hits = {} THEN Undefined
     ELSE obj.members[CHOOSE i \in hits : \A j \in hits : j <= i].val

\* The digits of a number literal before its exponent.
RECURSIVE Mantissa(_)
Mantissa(literal) ==
  IF literal = <<>> \/ Head(literal) \in {69, 101} THEN <<>>
  ELSE <<Head(literal)>> \o Mantissa(Tail(literal))

\* ToBoolean: undefined, null, false, "", and 0 are falsy.
Truthy(v) ==
  CASE v.type \in {"undefined", "null"} -> FALSE
    [] v.type = "boolean" -> v.chars # <<>>
    [] v.type = "string" -> v.chars # <<>>
    [] v.type = "number" ->
         \E i \in 1..Len(Mantissa(v.chars)) : Mantissa(v.chars)[i] \in 49..57
    [] OTHER -> TRUE

\* v || d
OrElse(v, d) == IF Truthy(v) THEN v ELSE d

(***************************************************************************)
(* extractProducts: the product card of an assistant message.              *)
(***************************************************************************)
\* The index of the closing brace of a match of
\* /\{(?:[^{}]|(?:\{[^{}]*\}))*\}/ whose opening brace is before index j and
\* whose items end before j; 0 if the match fails.  A nested group is a
\* brace, characters other than braces, and a closing brace.
RECURSIVE MatchEnd(_, _)
MatchEnd(s, j) ==
  IF j > Len(s) THEN 0
  ELSE IF s[j] = 125 THEN j
  ELSE IF s[j] # 123 THEN MatchEnd(s, j + 1)
  ELSE LET braces == {k \in j + 1..Len(s) : s[k] \in {123, 125}}
       IN IF braces = {} \/ s[Min(braces)] = 123 THEN 0
          ELSE MatchEnd(s, Min(braces) + 1)

\* The starts of the matches of the expression in s.
MatchStarts(s) == {i \in 1..Len(s) : s[i] = 123 /\ MatchEnd(s, i + 1) # 0}

\* text.match(jsonRegex): the leftmost match, or null.
JsonMatch(s) ==
  IF MatchStarts(s) = {} THEN [found |-> FALSE, str |-> <<>>]
  ELSE LET i == Min(MatchStarts(s))
       IN [found |-> TRUE, str |-> SubSeq(s, i, MatchEnd(s, i + 1))]

\* '€XX.XX' in the variant that starts empty, '€18.99' in the other.
DefaultPrice(v) ==
  IF v = "greeting" THEN <<8364, 49, 56, 46, 57, 57>>
  ELSE <<8364, 88, 88, 46, 88, 88>>

\* The object literal built from productData.
Product(v, productData) ==
  [name |-> Member(productData, <<110, 97, 109, 101>>),
   description |-> Member(productData, <<100, 101, 115, 99, 114, 105, 112, 116, 105, 111, 110>>),
   price |-> OrElse(Member(productData, <<112, 114, 105, 99, 101>>), Str(DefaultPrice(v))),
   url |-> OrElse(Member(productData, <<117, 114, 108>>), Str(<<35>>)),
   image_url |-> OrElse(Member(productData, <<105, 109, 97, 103, 101, 95, 117, 114, 108>>), Str(<<>>)),
   ingredients |-> OrElse(Member(productData, <<105, 110, 103, 114, 101, 100, 105, 101, 110, 116, 115>>), JsArray(<<>>)),
   advantages |-> OrElse(Member(productData, <<97, 100, 118, 97, 110, 116, 97, 103, 101, 115>>), JsArray(<<>>)),
   suitability |-> OrElse(Member(productData, <<115, 117, 105, 116, 97, 98, 105, 108, 105, 116, 121>>), JsArray(<<>>)),
   questions |-> OrElse(Member(productData, <<113, 117, 101, 115, 116, 105, 111, 110, 115>>), JsArray(<<>>))]

\* return null
NullResult == [null |-> TRUE, raised |-> FALSE, products |-> <<>>]

\* The SyntaxError of JSON.parse leaving extractProducts.
ParseErrorRethrown == [null |-> FALSE, raised |-> TRUE, products |-> <<>>]

\* catch (e) { console.error(...) } and the return null after it.
ParseErrorCaught == NullResult

extractProducts(v, t) ==
  LET jsonMatch == JsonMatch(t)
  IN IF ~jsonMatch.found THEN NullResult
     ELSE LET productData == JSONParse(jsonMatch.str)
          IN IF ~productData.ok THEN ParseErrorCaught
             ELSE [null |-> FALSE, raised |-> FALSE,
                   products |-> <<Product(v, productData.val)>>]

NotExtracted == [done |-> FALSE, out |-> NullResult]

\* Texts handed to extractProducts: {"k":  {}  }  "name":"n"  {  a  ,
ProductPieces ==
  {<<123, 34, 107, 34, 58>>, <<123, 125>>, <<125>>, <<34, 110, 97, 109, 101, 34, 58, 34, 110, 34>>, <<123>>, <<97>>, <<44>>}

RECURSIVE ProductTextsOf(_)
ProductTextsOf(n) ==
  IF n = 0 THEN {<<>>}
  ELSE LET T == ProductTextsOf(n - 1)
       IN T \cup {t \o p : t \in T, p \in ProductPieces}

ProductTexts == ProductTextsOf(MaxProductPieces)

(***************************************************************************)
(* handleSubmit, up to the first await.                                    *)
(***************************************************************************)
\* The guard without the trim: "   " passes it.
IgnoresSubmitNoTrim(inp, loading) == inp = <<>> \/ loading

\* The guard without the in-flight flag.
IgnoresSubmitNoFlag(inp, loading) == Trim(inp) = <<>>

\* if (!input.trim() || isLoading) return;
IgnoresSubmit(inp, loading) == Trim(inp) = <<>> \/ loading

\* handleSubmit without its setIsLoading(true).
LoadingAfterSubmitUnset == FALSE

\* setIsLoading(true)
LoadingAfterSubmit == TRUE

\* A request body built without the message just typed.
RequestMessagesStale(msgs, userMessage) == msgs

\* body: JSON.stringify({ messages: [...messages, userMessage] })
RequestMessages(msgs, userMessage) == Append(msgs, userMessage)

handleSubmit ==
  /\ event' = Event("submit", NoCall)
  /\ IF IgnoresSubmit(input, isLoading)
     THEN UNCHANGED <<messages, input, isLoading, pending, sent>>
     ELSE LET userMessage == ChatMessage("user", Str(input))
          IN /\ sent < MaxRequests
             /\ messages' = Append(messages, userMessage)
             /\ input' = <<>>
             /\ isLoading' = LoadingAfterSubmit
             /\ sent' = sent + 1
             /\ pending' = pending \cup
                  {[id |-> sent + 1, pc |-> "fetch",
                    payload |-> RequestMessages(messages, userMessage),
                    resp |-> NoResponse]}
  /\ UNCHANGED <<variant, parserVars>>

\* onChange={(e) => setInput(e.target.value)}
handleChange(v) ==
  /\ input' = v
  /\ event' = Event("change", NoCall)
  /\ UNCHANGED <<variant, messages, isLoading, pending, sent, parserVars>>

handleReset ==
  /\ messages' = ResetMessages(variant)
  /\ event' = Event("reset", NoCall)
  /\ UNCHANGED <<variant, input, isLoading, pending, sent, parserVars>>

(***************************************************************************)
(* handleSubmit, after an await.                                           *)
(***************************************************************************)
\* A catch block that overwrites the last message with the fallback.
CatchBlockReplacesLast(prev) ==
  IF prev = <<>> THEN <<FallbackMessage>>
  ELSE [prev EXCEPT ![Len(prev)] = FallbackMessage]

\* catch (error) { setMessages((prev) => [...prev, fallback]) }
CatchBlock(prev) == Append(prev, FallbackMessage)

\* A reply built from a member the response body does not have.
AppendReplyWrongField(prev, data) ==
  Append(prev, ChatMessage("assistant", Undefined))

\* setMessages((prev) => [...prev, {role: 'assistant', content: data.text}])
AppendReply(prev, data) == Append(prev, ChatMessage("assistant", data.text))

\* setIsLoading(false) as the last statement of the try block instead of a
\* finally clause: the flag stays set when the catch block ran.
LoadingAfterTryNoFinally(failed) == failed

\* finally { setIsLoading(false) }: the flag after the try statement, whether
\* it was left through the catch block (failed) or not.
LoadingAfterTry(failed) == FALSE

\* await fetch(...) rejects: network failure.
FetchReject(c) ==
  /\ c \in pending
  /\ c.pc = "fetch"
  /\ messages' = CatchBlock(messages)
  /\ isLoading' = LoadingAfterTry(TRUE)
  /\ pending' = pending \ {c}
  /\ event' = Event("failed", c)
  /\ UNCHANGED <<variant, input, sent, parserVars>>

\* await fetch(...) resolves with a response of any status; the handler goes
\* on to await response.json() without reading response.ok.
FetchResolve(c, r) ==
  /\ c \in pending
  /\ c.pc = "fetch"
  /\ pending' = (pending \ {c}) \cup {[c EXCEPT !.pc = "json", !.resp = r]}
  /\ event' = Event("response", c)
  /\ UNCHANGED <<variant, messages, input, isLoading, sent, parserVars>>

\* response.json() rejects when the body is not JSON; reading data.text
\* throws a TypeError when the body is the JSON value null.
Throws(body) == body.kind \in {"notjson", "null"}

\* await response.json() settles, and the handler runs to its end.
JsonSettle(c) ==
  /\ c \in pending
  /\ c.pc = "json"
  /\ IF Throws(c.resp.body)
     THEN /\ messages' = CatchBlock(messages)
          /\ isLoading' = LoadingAfterTry(TRUE)
          /\ event' = Event("failed", c)
     ELSE /\ messages' = AppendReply(messages, c.resp.body)
          /\ isLoading' = LoadingAfterTry(FALSE)
          /\ event' = Event("replied", c)
  /\ pending' = pending \ {c}
  /\ UNCHANGED <<variant, input, sent, parserVars>>

(***************************************************************************)
(* The chat specification.                                                 *)
(***************************************************************************)
Init ==
  /\ variant \in {"empty", "greeting"}
  /\ messages = InitialMessages(variant)
  /\ input = <<>>
  /\ isLoading = FALSE
  /\ pending = {}
  /\ sent = 0
  /\ event = Event("mount", NoCall)
  /\ text = <<>>
  /\ rendered = NotRendered
  /\ extracted = NotExtracted

Next ==
  \/ handleSubmit
  \/ \E v \in InputValues : handleChange(v)
  \/ handleReset
  \/ \E c \in pending : FetchReject(c)
  \/ \E c \in pending : \E r \in Responses : FetchResolve(c, r)
  \/ \E c \in pending : JsonSettle(c)

Spec == Init /\ [][Next]_vars

\* The network layer settles every request it was given, and the decoding of
\* a received body ends.
Completion ==
  \/ \E c \in pending : FetchReject(c)
  \/ \E c \in pending : \E r \in Responses : FetchResolve(c, r)
  \/ \E c \in pending : JsonSettle(c)

LiveSpec == Spec /\ WF_vars(Completion)

(***************************************************************************)
(* The specification of the rendering of one text.                         *)
(***************************************************************************)
ParserInit ==
  /\ variant \in {"empty", "greeting"}
  /\ messages = InitialMessages(variant)
  /\ input = <<>>
  /\ isLoading = FALSE
  /\ pending = {}
  /\ sent = 0
  /\ event = Event("mount", NoCall)
  /\ text \in Texts
  /\ rendered = NotRendered
  /\ extracted = NotExtracted

Render ==
  /\ ~rendered.done
  /\ rendered' = [done |-> TRUE, out |-> formatResponseText(text)]
  /\ UNCHANGED <<chatVars, text, extracted>>

ParserNext == Render

ParserSpec == ParserInit /\ [][ParserNext]_vars

(***************************************************************************)
(* The specification of the extraction of the product of one text.         *)
(***************************************************************************)
ExtractInit ==
  /\ variant \in {"empty", "greeting"}
  /\ messages = InitialMessages(variant)
  /\ input = <<>>
  /\ isLoading = FALSE
  /\ pending = {}
  /\ sent = 0
  /\ event = Event("mount", NoCall)
  /\ text \in ProductTexts
  /\ rendered = NotRendered
  /\ extracted = NotExtracted

Extract ==
  /\ ~extracted.done
  /\ extracted' = [done |-> TRUE, out |-> extractProducts(variant, text)]
  /\ UNCHANGED <<chatVars, text, rendered>>

ExtractNext == Extract

ExtractSpec == ExtractInit /\ [][ExtractNext]_vars

TypeOK ==
  /\ variant \in {"empty", "greeting"}
  /\ isLoading \in BOOLEAN
  /\ sent \in 0..MaxRequests
  /\ input \in InputValues
  /\ \A c \in pending : c.pc \in {"fetch", "json"} /\ c.id \in 1..sent
  /\ event.name \in {"mount", "submit", "change", "reset", "failed", "response", "replied"}

(***************************************************************************)
(* Properties of the chat specification.                                   *)
(***************************************************************************)
Blank(s) == Trim(s) = <<>>

Last(s) == s[Len(s)]

UserMessage(s) == ChatMessage("user", Str(s))

\* C1: a submit with an empty or whitespace-only input buffer changes
\* neither the conversation nor the in-flight flag and issues no request.
C1_BlankSubmitIsNoOp ==
  [][(event'.name = "submit" /\ Blank(input))
       => UNCHANGED <<messages, isLoading, pending, sent>>]_vars

\* A whitespace-only buffer was submitted after an earlier exchange.
C1_Witness ==
  /\ event.name = "submit"
  /\ input # <<>>
  /\ Blank(input)
  /\ ~isLoading
  /\ sent > 0

\* C2: at most one chat request is outstanding, and a submit made while the
\* in-flight flag is set issues no request and appends no message.
C2_OneOutstandingRequest ==
  /\ [](Cardinality(pending) <= 1)
  /\ [][(event'.name = "submit" /\ isLoading)
          => UNCHANGED <<messages, pending, sent>>]_vars

\* A non-blank buffer was submitted while a request was outstanding.
C2_Witness ==
  /\ event.name = "submit"
  /\ isLoading
  /\ ~Blank(input)
  /\ Cardinality(pending) = 1

\* C3: when the request of a submit fails, the conversation is the one from
\* before the submit plus the user message and the fallback message, and the
\* in-flight flag is false.  (payload is the conversation before the submit
\* plus the user message.)
C3_FailedSubmitGainsTwo ==
  [][\A c \in pending :
       (event'.name = "failed" /\ event'.call = c)
         => /\ messages' = Append(c.payload, FallbackMessage)
            /\ isLoading' = FALSE]_vars

\* C4: when a request completes successfully, exactly one message is
\* appended: an assistant message whose content is the text member of the
\* response body.
C4_ReplyIsResponseText ==
  [][\A c \in pending :
       (event'.call = c /\ c.pc = "json" /\ c.resp.ok
          /\ c.resp.body.kind = "object")
         => /\ messages' = Append(messages, ChatMessage("assistant", c.resp.body.text))
            /\ c.id \notin {d.id : d \in pending'}]_vars

\* An OK response with a text was appended to the conversation.
C4_Witness ==
  /\ event.name = "replied"
  /\ event.call.resp.ok
  /\ event.call.resp.body.text.type = "string"
  /\ messages # <<>>
  /\ Last(messages) = ChatMessage("assistant", event.call.resp.body.text)
  /\ Last(messages) # FallbackMessage

\* C5: whenever the in-flight flag is set it is eventually cleared; every
\* way a request ends (reply, network rejection, decode error) clears it; and
\* a non-blank submit made while the flag is clear is accepted.
C5_FlagEventuallyCleared ==
  /\ isLoading ~> ~isLoading
  /\ [][event'.name \in {"failed", "replied"} => ~isLoading']_vars
  /\ [][(event'.name = "submit" /\ ~isLoading /\ ~Blank(input))
          => /\ messages' = Append(messages, UserMessage(input))
             /\ sent' = sent + 1]_vars

\* A second submit was accepted after the first one failed.
C5_Witness ==
  /\ event.name = "submit"
  /\ isLoading
  /\ sent = 2
  /\ Len(messages) >= 3
  /\ messages[Len(messages) - 1] = FallbackMessage
  /\ Last(messages).role = "user"

\* C6: a user message is appended only when no request is outstanding, so
\* the reply to a submission precedes the user message of the next one and
\* no two user messages are adjacent in the conversation.
C6_ReplyBeforeNextSubmit ==
  /\ [][(Len(messages') > 0 /\ messages' # messages
           /\ Last(messages').role = "user")
          => pending = {}]_vars
  /\ [](\A i \in 1..Len(messages) - 1 :
          ~(messages[i].role = "user" /\ messages[i + 1].role = "user"))

\* The second submission was accepted after the reply to the first.
C6_Witness ==
  /\ sent = 2
  /\ Len(messages) >= 3
  /\ Last(messages).role = "user"
  /\ messages[Len(messages) - 1].role = "assistant"
  /\ messages[Len(messages) - 2].role = "user"

\* C7: after reset, whatever the conversation was and whether or not a
\* request is in flight, the conversation is the one of page start.
C7_ResetRestoresInitial ==
  event.name = "reset" => messages = InitialMessages(variant)

\* The greeting variant was reset with a request in flight.
C7_Witness ==
  /\ event.name = "reset"
  /\ variant = "greeting"
  /\ pending # {}
  /\ messages = <<GreetingMessage>>

\* C8: when the response is not OK, the appended message is the fallback.
C8_NonOkGivesFallback ==
  [][\A c \in pending :
       (event'.call = c /\ c.pc = "json" /\ ~c.resp.ok)
         => messages' = Append(messages, FallbackMessage)]_vars

\* C9: every message has a role of user or assistant and a string content.
C9_MessagesWellFormed ==
  \A i \in 1..Len(messages) :
    /\ messages[i].role \in {"user", "assistant"}
    /\ messages[i].content.type = "string"

(***************************************************************************)
(* Properties of formatResponseText.                                       *)
(***************************************************************************)
HasHeader(t) ==
  \E i \in 1..Len(t) :
    i + 3 <= Len(t) /\ SubSeq(t, i, i + 2) = <<35, 35, 32>>
      /\ t[i + 3] \in HeaderClass

RenderedSections == SelectSeq(rendered.out, LAMBDA x : ~x.null)

\* The part of s before its first line feed.
FirstLine(s) ==
  IF 10 \in {s[i] : i \in 1..Len(s)}
  THEN SubSeq(s, 1, (CHOOSE k \in 1..Len(s) :
                       s[k] = 10 /\ \A j \in 1..k - 1 : s[j] # 10) - 1)
  ELSE s

\* C10 as stated: a text without a recognized header yields no section.
C10_NoHeaderGivesNoSections ==
  (rendered.done /\ ~HasHeader(text)) => RenderedSections = <<>>

\* C10, amended: a text without a recognized header is not dropped.  If it
\* is blank it yields no section; otherwise it yields exactly one section,
\* whose title is the trimmed first line of the trimmed text and whose
\* bullets are trimmed, non-blank, and absent when the text has one line.
C10_NoHeaderGivesOneSection ==
  (rendered.done /\ ~HasHeader(text)) =>
    IF Blank(text) THEN RenderedSections = <<>>
    ELSE /\ Len(rendered.out) = 1
         /\ ~rendered.out[1].null
         /\ rendered.out[1].title = Trim(FirstLine(Trim(text)))
         /\ \A i \in 1..Len(rendered.out[1].bullets) :
              /\ rendered.out[1].bullets[i] # <<>>
              /\ Trim(rendered.out[1].bullets[i]) = rendered.out[1].bullets[i]
         /\ (FirstLine(Trim(text)) = Trim(text) => rendered.out[1].bullets = <<>>)

\* A text without header, with a title line and a bullet, was rendered.
C10_Witness ==
  /\ rendered.done
  /\ ~HasHeader(text)
  /\ Len(rendered.out) = 1
  /\ rendered.out[1].title # <<>>
  /\ rendered.out[1].bullets # <<>>

(***************************************************************************)
(* Further properties of the chat specification.                           *)
(***************************************************************************)
\* C13: every step that changes the conversation either appends exactly
\* one message, keeping all earlier messages in their order, or is a reset
\* that replaces the conversation by the initial one.
C13_AppendOnlyExceptReset ==
  [][\/ messages' = messages
     \/ /\ Len(messages') = Len(messages) + 1
        /\ SubSeq(messages', 1, Len(messages)) = messages
     \/ /\ event'.name = "reset"
        /\ messages' = InitialMessages(variant)]_vars

\* The fallback was appended to a conversation of at least two exchanges,
\* the first of which is still in place.
C13_Witness ==
  /\ event.name = "failed"
  /\ sent = 2
  /\ Len(messages) >= Len(InitialMessages(variant)) + 4
  /\ Last(messages) = FallbackMessage
  /\ messages[Len(InitialMessages(variant)) + 1].role = "user"

\* C14: the request of an accepted submit carries the conversation as it is
\* right after the user message is appended: the messages from before the
\* submit, in order, then the user message with the raw input text.
C14_PayloadIsConversation ==
  [][(event'.name = "submit" /\ sent' # sent)
       => /\ messages' = Append(messages, UserMessage(input))
          /\ \E c \in pending' :
               /\ c.id = sent'
               /\ c \notin pending
               /\ c.payload = messages'
               /\ c.payload = Append(messages, UserMessage(input))]_vars

\* The text " hi " was sent untrimmed, after an earlier exchange.
C14_Witness ==
  /\ event.name = "submit"
  /\ sent = 2
  /\ Len(messages) >= 3
  /\ Last(messages) = UserMessage(<<32, 104, 105, 32>>)
  /\ \E c \in pending : c.pc = "fetch" /\ c.payload = messages

\* C15: every assistant message other than the initial greeting directly
\* follows a user message.
C15_AssistantFollowsUser ==
  \A i \in 1..Len(messages) :
    (messages[i].role = "assistant"
       /\ ~(i = 1 /\ variant = "greeting" /\ messages[1] = GreetingMessage))
      => (i > 1 /\ messages[i - 1].role = "user")

(***************************************************************************)
(* Properties of extractProducts.                                          *)
(***************************************************************************)
\* Opening minus closing braces among the first i code units of t.
BraceDepth(t, i) ==
  Cardinality({k \in 1..i : t[k] = 123}) - Cardinality({k \in 1..i : t[k] = 125})

\* t holds, as its first brace group, a JSON object with an object inside
\* an object inside it.
HasDeepObject(t) ==
  \E i \in 1..Len(t) : \E j \in i..Len(t) :
    /\ t[i] = 123
    /\ \A k \in 1..i - 1 : t[k] \notin {123, 125}
    /\ JSONParse(SubSeq(t, i, j)).ok
    /\ \E k \in i..j : BraceDepth(t, k) >= 3

\* C11: a text whose product object nests braces more than one level deep
\* yields null.
C11_DeepNestingGivesNull ==
  (extracted.done /\ HasDeepObject(text)) => extracted.out.null

\* No opening brace of t is followed by a closing brace.
NoBracePair(t) ==
  ~\E i \in 1..Len(t) : \E j \in i + 1..Len(t) : t[i] = 123 /\ t[j] = 125

\* C12: extractProducts raises nothing and returns null or exactly one
\* product; it returns null for a text without a brace-delimited group and
\* for a text whose first matched group is not valid JSON.
C12_ExtractIsTotal ==
  extracted.done =>
    /\ ~extracted.out.raised
    /\ \/ extracted.out.null /\ extracted.out.products = <<>>
       \/ ~extracted.out.null /\ Len(extracted.out.products) = 1
    /\ NoBracePair(text) => extracted.out.null
    /\ (JsonMatch(text).found /\ ~JSONParse(JsonMatch(text).str).ok)
         => extracted.out.null

\* A brace group was matched, was not valid JSON, and null was returned.
C12_Witness ==
  /\ extracted.done
  /\ JsonMatch(text).found
  /\ ~JSONParse(JsonMatch(text).str).ok
  /\ extracted.out.null
  /\ ~extracted.out.raised
====
